---- MODULE Spec2Model ----
(***************************************************************************)
(* Model of src/src/recycler.rs: Recycler<T> (a Mutex<Vec<T>> "landfill"), *)
(* Recycler::allocate and the Recyclable<T> handle with its Drop impl.     *)
(* The pooled type is the Foo of the test module (one field x, reset sets  *)
(* it to 0).  Every value carries a ghost identity id, the number of       *)
(* values constructed before it, and a ghost flag m, set once the value    *)
(* has been written through a handle.  alive tells whether the Recycler    *)
(* still exists; hwm is the largest number of handles that existed at the  *)
(* same time.                                                              *)
(***************************************************************************)
EXTENDS Integers, Sequences, FiniteSets, Bags

\* ---- bounds of the model -------------------------------------------------
NumThreads == 2
MaxHandles == 2
MaxPrefill == 2

Threads == 1..NumThreads
NoThread == 0
\* Foo::default().x
DefaultX == 0
\* foo.as_mut().x = 1
WrittenX == 1

VARIABLES landfill, locked, poisoned, aborted, pc, mode, local, handles,
          channel, nextId, returnOrder, returned, len0, alive, hwm

vars == <<landfill, locked, poisoned, aborted, pc, mode, local, handles,
          channel, nextId, returnOrder, returned, len0, alive, hwm>>

\* ---- the pooled type (tests::Foo) ---------------------------------------
\* #[derive(Default)] struct Foo { x: u8 }
Foo_default(n) == [id |-> n, x |-> DefaultX, m |-> FALSE]

Foo_reset_keep(v) == v
\* impl Reset for Foo: self.x = 0
Foo_reset(v) == [v EXCEPT !.x = 0]

\* ---- Option<T> and Vec<T> -------------------------------------------------
None == <<>>
Some(v) == <<v>>
IsSome(o) == o # None
Unwrap(o) == o[1]

Front(s) == SubSeq(s, 1, Len(s) - 1)
Last(s) == s[Len(s)]

Vec_pop_peek(s) ==
    IF s = <<>> THEN [opt |-> None, rest |-> s]
    ELSE [opt |-> Some(Last(s)), rest |-> s]
Vec_pop_front(s) ==
    IF s = <<>> THEN [opt |-> None, rest |-> s]
    ELSE [opt |-> Some(Head(s)), rest |-> Tail(s)]
Vec_pop_miss(s) == [opt |-> None, rest |-> s]
\* Vec::pop: removes and returns the last element, None when empty
Vec_pop(s) ==
    IF s = <<>> THEN [opt |-> None, rest |-> s]
    ELSE [opt |-> Some(Last(s)), rest |-> Front(s)]

Vec_push_noop(s, v) == s
Vec_push_reset(s, v) == Append(s, Foo_reset(v))
Vec_push_twice(s, v) == Append(Append(s, v), v)
Vec_push_front(s, v) == <<v>> \o s
\* Vec::push: appends at the end
Vec_push(s, v) == Append(s, v)

Option_take_copy(o) == [taken |-> o, left |-> o]
\* Option::take: returns the content and leaves None
Option_take(o) == [taken |-> o, left |-> None]

\* ---- ghost helpers --------------------------------------------------------
RECURSIVE Without(_, _)
Without(s, i) ==
    IF s = <<>> THEN <<>>
    ELSE IF Head(s) = i THEN Without(Tail(s), i)
    ELSE <<Head(s)>> \o Without(Tail(s), i)

\* a Recyclable held by thread t; the handles held by the threads form a bag
Handle(o, t) == [val |-> o, owner |-> t]
\* the locals of a call: the value being moved, and, in a drop, the val field
\* of the handle being dropped
NoLocal == [val |-> None, hval |-> None, popped |-> FALSE, resets |-> 0]

AllocPcs == {"alloc_lock", "alloc_pop", "alloc_map", "alloc_default",
             "alloc_unlock", "alloc_wrap"}
DropPcs == {"drop_lock", "drop_push", "drop_unlock"}
Held(t) == {r \in BagToSet(handles) : r.owner = t}
\* the handles that exist or are being built
HandleCount ==
    BagCardinality(handles) + Len(channel)
        + Cardinality({t \in Threads : pc[t] \in AllocPcs \cup DropPcs})

\* the handles that exist: held, in the channel, or in their drop
LiveHandles ==
    BagCardinality(handles) + Len(channel)
        + Cardinality({t \in Threads : pc[t] \in DropPcs})

\* ---- Recycler::default ------------------------------------------------------
Init ==
    /\ landfill = <<>>
    /\ locked = NoThread
    /\ poisoned = FALSE
    /\ aborted = FALSE
    /\ pc = [t \in Threads |-> "idle"]
    /\ mode = [t \in Threads |-> "run"]
    /\ local = [t \in Threads |-> NoLocal]
    /\ handles = EmptyBag
    /\ channel = <<>>
    /\ nextId = 0
    /\ returnOrder = <<>>
    /\ returned = FALSE
    /\ len0 = 0
    /\ alive = TRUE
    /\ hwm = 0

\* ---- Recycler::allocate -----------------------------------------------------
\* a caller enters allocate
AllocCall(t) ==
    /\ ~aborted /\ alive /\ mode[t] = "run" /\ pc[t] = "idle"
    /\ HandleCount < MaxHandles
    /\ pc' = [pc EXCEPT ![t] = "alloc_lock"]
    /\ UNCHANGED <<landfill, locked, poisoned, aborted, mode, local, handles,
                   channel, nextId, returnOrder, returned, len0, alive, hwm>>

\* self.landfill.lock().unwrap()
AllocLock(t) ==
    /\ ~aborted /\ pc[t] = "alloc_lock"
    /\ locked = NoThread /\ ~poisoned
    /\ locked' = t
    /\ pc' = [pc EXCEPT ![t] = "alloc_pop"]
    /\ UNCHANGED <<landfill, poisoned, aborted, mode, local, handles,
                   channel, nextId, returnOrder, returned, len0, alive, hwm>>

\* .pop()
AllocPop(t) ==
    /\ ~aborted /\ pc[t] = "alloc_pop"
    /\ LET r == Vec_pop(landfill) IN
        /\ landfill' = r.rest
        /\ local' = [local EXCEPT ![t] = [NoLocal EXCEPT !.val = r.opt,
                                                         !.popped = IsSome(r.opt)]]
        /\ pc' = [pc EXCEPT ![t] = IF IsSome(r.opt) THEN "alloc_map" ELSE "alloc_default"]
        /\ returnOrder' = IF IsSome(r.opt) THEN Without(returnOrder, Unwrap(r.opt).id)
                          ELSE returnOrder
    /\ UNCHANGED <<locked, poisoned, aborted, mode, handles, channel, nextId,
                   returned, len0, alive, hwm>>

AllocMap_noReset(t) ==
    /\ ~aborted /\ pc[t] = "alloc_map"
    /\ pc' = [pc EXCEPT ![t] = "alloc_unlock"]
    /\ UNCHANGED <<landfill, locked, poisoned, aborted, mode, local, handles,
                   channel, nextId, returnOrder, returned, len0, alive, hwm>>
\* .map(|mut val| { val.reset(); val }) on Some, with the guard still alive
AllocMap(t) ==
    /\ ~aborted /\ pc[t] = "alloc_map"
    /\ local' = [local EXCEPT ![t].val = Some(Foo_reset(Unwrap(@))),
                              ![t].resets = @ + 1]
    /\ pc' = [pc EXCEPT ![t] = "alloc_unlock"]
    /\ UNCHANGED <<landfill, locked, poisoned, aborted, mode, handles,
                   channel, nextId, returnOrder, returned, len0, alive, hwm>>

\* .unwrap_or_default() on None, with the guard still alive
AllocDefault(t) ==
    /\ ~aborted /\ pc[t] = "alloc_default"
    /\ local' = [local EXCEPT ![t].val = Some(Foo_default(nextId))]
    /\ nextId' = nextId + 1
    /\ pc' = [pc EXCEPT ![t] = "alloc_unlock"]
    /\ UNCHANGED <<landfill, locked, poisoned, aborted, mode, handles,
                   channel, returnOrder, returned, len0, alive, hwm>>

\* end of the let statement: the temporary MutexGuard is dropped
AllocUnlock(t) ==
    /\ ~aborted /\ pc[t] = "alloc_unlock"
    /\ locked' = NoThread
    /\ pc' = [pc EXCEPT ![t] = "alloc_wrap"]
    /\ UNCHANGED <<landfill, poisoned, aborted, mode, local, handles,
                   channel, nextId, returnOrder, returned, len0, alive, hwm>>

\* Recyclable { val: Some(val), landfill: &self.landfill }
AllocWrap(t) ==
    /\ ~aborted /\ pc[t] = "alloc_wrap"
    /\ handles' = handles (+) SetToBag({Handle(local[t].val, t)})
    /\ local' = [local EXCEPT ![t] = NoLocal]
    /\ pc' = [pc EXCEPT ![t] = "idle"]
    /\ hwm' = IF LiveHandles + 1 > hwm THEN LiveHandles + 1 ELSE hwm
    /\ UNCHANGED <<landfill, locked, poisoned, aborted, mode, channel, nextId,
                   returnOrder, returned, len0, alive>>

\* ---- Recyclable::as_mut ------------------------------------------------------
\* foo.as_mut().x = 1
AsMut(t, r) ==
    /\ ~aborted /\ mode[t] = "run" /\ pc[t] = "idle"
    /\ r \in Held(t)
    /\ handles' = (handles (-) SetToBag({r})) (+)
            SetToBag({Handle(Some([Unwrap(r.val) EXCEPT !.x = WrittenX, !.m = TRUE]), t)})
    /\ UNCHANGED <<landfill, locked, poisoned, aborted, pc, mode, local,
                   channel, nextId, returnOrder, returned, len0, alive, hwm>>

\* ---- Recyclable::as_ref ------------------------------------------------------
\* foo.as_ref(): self.val.as_ref().unwrap(), a read of the handle's own value
AsRef(t, r) ==
    /\ ~aborted /\ mode[t] = "run" /\ pc[t] = "idle"
    /\ r \in Held(t)
    /\ IsSome(r.val)
    /\ UNCHANGED vars

\* ---- moving a handle through an mpsc channel ---------------------------------
\* sender.send(foo)
Send(t, r) ==
    /\ ~aborted /\ mode[t] = "run" /\ pc[t] = "idle"
    /\ r \in Held(t)
    /\ handles' = handles (-) SetToBag({r})
    /\ channel' = Append(channel, r.val)
    /\ UNCHANGED <<landfill, locked, poisoned, aborted, pc, mode, local,
                   nextId, returnOrder, returned, len0, alive, hwm>>

\* receiver.recv()
Recv(t) ==
    /\ ~aborted /\ mode[t] = "run" /\ pc[t] = "idle"
    /\ channel # <<>>
    /\ handles' = handles (+) SetToBag({Handle(Head(channel), t)})
    /\ channel' = Tail(channel)
    /\ UNCHANGED <<landfill, locked, poisoned, aborted, pc, mode, local,
                   nextId, returnOrder, returned, len0, alive, hwm>>

\* ---- Drop for Recyclable -----------------------------------------------------
\* if let Some(val) = self.val.take()
DropTake(t, r) ==
    /\ ~aborted /\ pc[t] = "idle"
    /\ r \in Held(t)
    /\ LET o == Option_take(r.val) IN
        /\ handles' = handles (-) SetToBag({r})
        /\ local' = [local EXCEPT ![t] = [NoLocal EXCEPT !.val = o.taken, !.hval = o.left]]
        /\ pc' = [pc EXCEPT ![t] = IF IsSome(o.taken) THEN "drop_lock" ELSE "drop_unlock"]
    /\ UNCHANGED <<landfill, locked, poisoned, aborted, mode, channel, nextId,
                   returnOrder, returned, len0, alive, hwm>>

\* self.landfill.lock().unwrap()
DropLock(t) ==
    /\ ~aborted /\ pc[t] = "drop_lock"
    /\ locked = NoThread /\ ~poisoned
    /\ locked' = t
    /\ pc' = [pc EXCEPT ![t] = "drop_push"]
    /\ UNCHANGED <<landfill, poisoned, aborted, mode, local, handles,
                   channel, nextId, returnOrder, returned, len0, alive, hwm>>

\* .push(val)
DropPush(t) ==
    /\ ~aborted /\ pc[t] = "drop_push"
    /\ landfill' = Vec_push(landfill, Unwrap(local[t].val))
    /\ returnOrder' = Append(returnOrder, Unwrap(local[t].val).id)
    /\ local' = [local EXCEPT ![t].val = None]
    /\ returned' = TRUE
    /\ pc' = [pc EXCEPT ![t] = "drop_unlock"]
    /\ UNCHANGED <<locked, poisoned, aborted, mode, handles, channel, nextId, len0, alive, hwm>>

DropUnlock_keep(t) ==
    /\ ~aborted /\ pc[t] = "drop_unlock"
    /\ local' = [local EXCEPT ![t] = NoLocal]
    /\ pc' = [pc EXCEPT ![t] = "idle"]
    /\ UNCHANGED <<landfill, locked, poisoned, aborted, mode, handles, channel,
                   nextId, returnOrder, returned, len0, alive, hwm>>
\* end of the statement: the guard is dropped, then the handle is gone
DropUnlock(t) ==
    /\ ~aborted /\ pc[t] = "drop_unlock"
    /\ locked' = IF locked = t THEN NoThread ELSE locked
    /\ local' = [local EXCEPT ![t] = NoLocal]
    /\ pc' = [pc EXCEPT ![t] = "idle"]
    /\ UNCHANGED <<landfill, poisoned, aborted, mode, handles, channel, nextId,
                   returnOrder, returned, len0, alive, hwm>>

\* ---- callers: a panic in user code unwinds the thread, dropping its handles --
Panic(t) ==
    /\ ~aborted /\ mode[t] = "run" /\ pc[t] = "idle"
    /\ Held(t) # {}
    /\ mode' = [mode EXCEPT ![t] = "unwind"]
    /\ UNCHANGED <<landfill, locked, poisoned, aborted, pc, local, handles,
                   channel, nextId, returnOrder, returned, len0, alive, hwm>>

\* threads that allocate, write, hand over, drop and unwind on one pool
Next ==
    \/ \E t \in Threads : AllocCall(t)
    \/ \E t \in Threads : AllocLock(t)
    \/ \E t \in Threads : AllocPop(t)
    \/ \E t \in Threads : AllocMap(t)
    \/ \E t \in Threads : AllocDefault(t)
    \/ \E t \in Threads : AllocUnlock(t)
    \/ \E t \in Threads : AllocWrap(t)
    \/ \E t \in Threads : \E r \in Held(t) : AsMut(t, r)
    \/ \E t \in Threads : \E r \in Held(t) : AsRef(t, r)
    \/ \E t \in Threads : \E r \in Held(t) : Send(t, r)
    \/ \E t \in Threads : Recv(t)
    \/ \E t \in Threads : \E r \in Held(t) : DropTake(t, r)
    \/ \E t \in Threads : DropLock(t)
    \/ \E t \in Threads : DropPush(t)
    \/ \E t \in Threads : DropUnlock(t)
    \/ \E t \in Threads : Panic(t)

Spec == Init /\ [][Next]_vars

\* ---- one thread allocates and sends, the others receive and drop -------------
\* (tests::test_channel, tests::test_scoped_thread)
Producer == 1
Consumers == Threads \ {Producer}

NextChannel ==
    \/ AllocCall(Producer)
    \/ AllocLock(Producer)
    \/ AllocPop(Producer)
    \/ AllocMap(Producer)
    \/ AllocDefault(Producer)
    \/ AllocUnlock(Producer)
    \/ AllocWrap(Producer)
    \/ \E r \in Held(Producer) : AsMut(Producer, r)
    \/ \E r \in Held(Producer) : Send(Producer, r)
    \/ \E t \in Consumers : Recv(t)
    \/ \E t \in Consumers : \E r \in Held(t) : DropTake(t, r)
    \/ \E t \in Consumers : DropLock(t)
    \/ \E t \in Consumers : DropPush(t)
    \/ \E t \in Consumers : DropUnlock(t)

SpecChannel == Init /\ [][NextChannel]_vars

\* ---- one caller running allocate/return pairs (tests::test_recycle) ----------
\* a free list of n values returned earlier, in any state a handle can leave
Prefill(n) ==
    {[k \in 1..n |-> [id |-> k - 1, x |-> f[k], m |-> f[k] # DefaultX]] :
        f \in [1..n -> {DefaultX, WrittenX}]}

PairsInit ==
    /\ \E n \in 0..MaxPrefill :
        /\ landfill \in Prefill(n)
        /\ nextId = n
        /\ len0 = n
        /\ hwm = n
        /\ returnOrder = [k \in 1..n |-> k - 1]
    /\ locked = NoThread
    /\ poisoned = FALSE
    /\ aborted = FALSE
    /\ pc = [t \in Threads |-> "idle"]
    /\ mode = [t \in Threads |-> "run"]
    /\ local = [t \in Threads |-> NoLocal]
    /\ handles = EmptyBag
    /\ channel = <<>>
    /\ returned = FALSE
    /\ alive = TRUE

\* { let mut foo = recycler.allocate(); foo.as_mut().x = 1; } repeated
NextPairs ==
    \/ (handles = EmptyBag /\ AllocCall(1))
    \/ AllocLock(1)
    \/ AllocPop(1)
    \/ AllocMap(1)
    \/ AllocDefault(1)
    \/ AllocUnlock(1)
    \/ AllocWrap(1)
    \/ \E r \in Held(1) : AsMut(1, r)
    \/ \E r \in Held(1) : DropTake(1, r)
    \/ DropLock(1)
    \/ DropPush(1)
    \/ DropUnlock(1)

SpecPairs == PairsInit /\ [][NextPairs]_vars

\* ---- a pooled type whose reset calls allocate on the pool it lives in --------
\* val.reset() runs inside the let statement of allocate, whose MutexGuard
\* temporary is still alive: the nested allocate reaches self.landfill.lock()
ResetReenter(t) ==
    /\ ~aborted /\ pc[t] = "alloc_map"
    /\ pc' = [pc EXCEPT ![t] = "nested_lock"]
    /\ UNCHANGED <<landfill, locked, poisoned, aborted, mode, local, handles,
                   channel, nextId, returnOrder, returned, len0, alive, hwm>>

\* std::sync::Mutex::lock on a mutex the thread already holds does not return:
\* it blocks forever ...
NestedLockDeadlock(t) ==
    /\ ~aborted /\ pc[t] = "nested_lock" /\ locked = t
    /\ pc' = [pc EXCEPT ![t] = "deadlocked"]
    /\ UNCHANGED <<landfill, locked, poisoned, aborted, mode, local, handles,
                   channel, nextId, returnOrder, returned, len0, alive, hwm>>

\* ... or it panics: the popped value is dropped by the unwinding and the outer
\* guard is dropped while panicking, which poisons the mutex
NestedLockPanic(t) ==
    /\ ~aborted /\ pc[t] = "nested_lock" /\ locked = t
    /\ locked' = NoThread
    /\ poisoned' = TRUE
    /\ local' = [local EXCEPT ![t] = NoLocal]
    /\ mode' = [mode EXCEPT ![t] = "unwind"]
    /\ pc' = [pc EXCEPT ![t] = "idle"]
    /\ UNCHANGED <<landfill, aborted, handles, channel, nextId, returnOrder,
                   returned, len0, alive, hwm>>

AllocLockPoisoned_recover(t) ==
    /\ ~aborted /\ pc[t] = "alloc_lock"
    /\ locked = NoThread /\ poisoned
    /\ locked' = t
    /\ pc' = [pc EXCEPT ![t] = "alloc_pop"]
    /\ UNCHANGED <<landfill, poisoned, aborted, mode, local, handles,
                   channel, nextId, returnOrder, returned, len0, alive, hwm>>
\* self.landfill.lock().unwrap() in allocate on a poisoned mutex: unwrap panics
AllocLockPoisoned(t) ==
    /\ ~aborted /\ pc[t] = "alloc_lock"
    /\ locked = NoThread /\ poisoned
    /\ mode' = [mode EXCEPT ![t] = "unwind"]
    /\ pc' = [pc EXCEPT ![t] = "idle"]
    /\ UNCHANGED <<landfill, locked, poisoned, aborted, local, handles,
                   channel, nextId, returnOrder, returned, len0, alive, hwm>>

\* self.landfill.lock().unwrap() in drop on a poisoned mutex: unwrap panics, the
\* taken value is dropped; a panic in a drop that runs during unwinding aborts
DropLockPoisoned(t) ==
    /\ ~aborted /\ pc[t] = "drop_lock"
    /\ locked = NoThread /\ poisoned
    /\ aborted' = (mode[t] = "unwind")
    /\ mode' = [mode EXCEPT ![t] = "unwind"]
    /\ local' = [local EXCEPT ![t] = NoLocal]
    /\ pc' = [pc EXCEPT ![t] = "idle"]
    /\ UNCHANGED <<landfill, locked, poisoned, handles, channel, nextId,
                   returnOrder, returned, len0, alive, hwm>>

NextReentrant ==
    \/ Next
    \/ \E t \in Threads : ResetReenter(t)
    \/ \E t \in Threads : NestedLockDeadlock(t)
    \/ \E t \in Threads : NestedLockPanic(t)
    \/ \E t \in Threads : AllocLockPoisoned(t)
    \/ \E t \in Threads : DropLockPoisoned(t)

SpecReentrant == Init /\ [][NextReentrant]_vars

\* ---- a reset or a default that fails inside allocate -----------------------
\* val.reset() panics inside the closure of map: the unwinding drops the popped
\* value and then the MutexGuard temporary of the let statement, and a guard
\* dropped while panicking poisons the mutex
ResetPanic(t) ==
    /\ ~aborted /\ pc[t] = "alloc_map" /\ locked = t
    /\ locked' = NoThread
    /\ poisoned' = TRUE
    /\ local' = [local EXCEPT ![t] = NoLocal]
    /\ mode' = [mode EXCEPT ![t] = "unwind"]
    /\ pc' = [pc EXCEPT ![t] = "idle"]
    /\ UNCHANGED <<landfill, aborted, handles, channel, nextId, returnOrder,
                   returned, len0, alive, hwm>>

\* Default::default() panics inside unwrap_or_default: nothing was popped, and
\* the unwinding drops the same guard
DefaultPanic(t) ==
    /\ ~aborted /\ pc[t] = "alloc_default" /\ locked = t
    /\ locked' = NoThread
    /\ poisoned' = TRUE
    /\ local' = [local EXCEPT ![t] = NoLocal]
    /\ mode' = [mode EXCEPT ![t] = "unwind"]
    /\ pc' = [pc EXCEPT ![t] = "idle"]
    /\ UNCHANGED <<landfill, aborted, handles, channel, nextId, returnOrder,
                   returned, len0, alive, hwm>>

\* a pooled type whose reset can fail
NextResetFail ==
    \/ Next
    \/ \E t \in Threads : ResetPanic(t)
    \/ \E t \in Threads : AllocLockPoisoned(t)
    \/ \E t \in Threads : DropLockPoisoned(t)

SpecResetFail == Init /\ [][NextResetFail]_vars

\* a pooled type whose default can fail
NextDefaultFail ==
    \/ Next
    \/ \E t \in Threads : DefaultPanic(t)
    \/ \E t \in Threads : AllocLockPoisoned(t)
    \/ \E t \in Threads : DropLockPoisoned(t)

SpecDefaultFail == Init /\ [][NextDefaultFail]_vars

\* a pooled type whose reset and default can both fail
NextFail ==
    \/ Next
    \/ \E t \in Threads : ResetPanic(t)
    \/ \E t \in Threads : DefaultPanic(t)
    \/ \E t \in Threads : AllocLockPoisoned(t)
    \/ \E t \in Threads : DropLockPoisoned(t)

SpecFail == Init /\ [][NextFail]_vars

\* ---- the Recycler goes out of scope ------------------------------------------
Teardown_early ==
    /\ ~aborted /\ alive
    /\ alive' = FALSE
    /\ landfill' = <<>>
    /\ UNCHANGED <<locked, poisoned, aborted, pc, mode, local, handles, channel,
                   nextId, returnOrder, returned, len0, hwm>>

\* a Recyclable<'a, T> holds landfill: &'a Mutex<Vec<T>> and allocate borrows
\* &self, so the Recycler can be dropped only once no handle and no call is left;
\* dropping it drops the Mutex and the Vec with the values in it
Teardown ==
    /\ ~aborted /\ alive
    /\ HandleCount = 0
    /\ alive' = FALSE
    /\ landfill' = <<>>
    /\ UNCHANGED <<locked, poisoned, aborted, pc, mode, local, handles, channel,
                   nextId, returnOrder, returned, len0, hwm>>

NextTeardown ==
    \/ Next
    \/ Teardown

SpecTeardown == Init /\ [][NextTeardown]_vars

\* ---- threads that allocate and drop, fairly scheduled ------------------------
\* (tests::test_scoped_thread, tests::test_thread_lifetime_in_struct)
NextFair ==
    \/ \E t \in Threads : AllocCall(t)
    \/ \E t \in Threads : AllocLock(t)
    \/ \E t \in Threads : AllocPop(t)
    \/ \E t \in Threads : AllocMap(t)
    \/ \E t \in Threads : AllocDefault(t)
    \/ \E t \in Threads : AllocUnlock(t)
    \/ \E t \in Threads : AllocWrap(t)
    \/ \E t \in Threads : \E r \in Held(t) : DropTake(t, r)
    \/ \E t \in Threads : DropLock(t)
    \/ \E t \in Threads : DropPush(t)
    \/ \E t \in Threads : DropUnlock(t)

\* self.landfill.lock(): a thread that can take the lock again and again
\* does take it
LockStep(t) == AllocLock(t) \/ DropLock(t)

\* the steps of a call that do not wait: a running thread takes them
CallStep(t) ==
    \/ AllocPop(t) \/ AllocMap(t) \/ AllocDefault(t) \/ AllocUnlock(t)
    \/ AllocWrap(t) \/ DropPush(t) \/ DropUnlock(t)

Fairness == \A t \in Threads : WF_vars(CallStep(t)) /\ SF_vars(LockStep(t))

SpecFair == Init /\ [][NextFair]_vars /\ Fairness

TypeOK ==
    /\ locked \in Threads \cup {NoThread}
    /\ nextId \in 0..(MaxHandles + MaxPrefill)
    /\ HandleCount <= MaxHandles
    /\ hwm \in 0..(MaxHandles + MaxPrefill)
    /\ \A t \in Threads : pc[t] = "idle" => local[t] = NoLocal

\* ---- where a value is ---------------------------------------------------------
Ids == 0..(nextId - 1)
CountIn(s, i) == Cardinality({k \in DOMAIN s : s[k].id = i})
ResidentCount(i) == CountIn(landfill, i)
RECURSIVE Copies(_)
Copies(S) ==
    IF S = {} THEN 0
    ELSE LET r == CHOOSE q \in S : TRUE IN CopiesIn(r, handles) + Copies(S \ {r})
Holds(o, i) == IsSome(o) /\ Unwrap(o).id = i
\* handles whose val is value i: held, in the channel, or being dropped
OwnedCount(i) ==
    Copies({r \in BagToSet(handles) : Holds(r.val, i)})
        + Cardinality({k \in DOMAIN channel : Holds(channel[k], i)})
        + Cardinality({t \in Threads : Holds(local[t].hval, i)})
InFlightCount(i) ==
    Cardinality({t \in Threads : IsSome(local[t].val) /\ Unwrap(local[t].val).id = i})
Quiescent == \A t \in Threads : pc[t] = "idle"
\* the step of thread t is the push of Recyclable::drop
DropStep(t) == pc[t] = "drop_push" /\ pc'[t] = "drop_unlock"
\* the step of thread t is the pop of Recycler::allocate
PopStep(t) == pc[t] = "alloc_pop" /\ pc'[t] # "alloc_pop"

\* C1: every value ever produced is, in every reachable state, in exactly one
\* place: an entry of the free list (resident), the val of a live handle
\* (checked-out), or the local of the allocate or drop that is moving it; it is
\* never both resident and checked-out, and once no allocate or drop is in
\* progress it is exactly one of resident and checked-out.
C1_ResidentXorCheckedOut ==
    /\ \A i \in Ids :
        /\ ResidentCount(i) + OwnedCount(i) + InFlightCount(i) = 1
        /\ ResidentCount(i) + OwnedCount(i) <= 1
    /\ Quiescent => \A i \in Ids : ResidentCount(i) + OwnedCount(i) = 1
    /\ \A k \in DOMAIN landfill : landfill[k].id \in Ids
    /\ \A r \in BagToSet(handles) : IsSome(r.val) /\ Unwrap(r.val).id \in Ids

C1_Witness ==
    /\ Quiescent /\ returned
    /\ \E i, j \in Ids : ResidentCount(i) = 1 /\ OwnedCount(j) = 1

\* C2: no two live handles own the same value and no two calls in progress hold
\* the same value, under every interleaving of the threads.
C2_NoAliasing ==
    \A i \in Ids :
        /\ OwnedCount(i) <= 1
        /\ InFlightCount(i) <= 1
        /\ \A t \in Threads :
            (pc[t] \in AllocPcs /\ Holds(local[t].val, i)) => OwnedCount(i) = 0

C2_Witness ==
    /\ returned
    /\ \E r1, r2 \in BagToSet(handles) : r1.owner # r2.owner

\* C3: the push of a drop puts the handle's value into the free list exactly
\* once (it was not there before, it is there once afterwards), on the normal
\* path and while the thread unwinds; a completed drop leaves its handle without
\* a value; and no step other than the push of a drop makes a value resident.
C3_ReturnedExactlyOnce ==
    /\ [][\A t \in Threads : DropStep(t) =>
            /\ ResidentCount(Unwrap(local[t].val).id) = 0
            /\ CountIn(landfill', Unwrap(local[t].val).id) = 1
            /\ Len(landfill') = Len(landfill) + 1]_vars
    /\ [][\A i \in Ids : CountIn(landfill', i) > CountIn(landfill, i) =>
            \E t \in Threads : DropStep(t) /\ Unwrap(local[t].val).id = i]_vars
    /\ [](\A t \in Threads : pc[t] = "drop_unlock" =>
            /\ local[t].hval = None
            /\ local[t].val = None)

C3_Witness ==
    \E t \in Threads : mode[t] = "unwind" /\ pc[t] = "drop_unlock" /\ landfill # <<>>

\* C4: an allocate that finds the free list non-empty pops a value and has
\* invoked reset on it exactly once when the handle is built; an allocate that
\* finds it empty constructs the value and never invokes reset.
C4_ResetExactlyOnce ==
    /\ [](\A t \in Threads : pc[t] \in {"alloc_unlock", "alloc_wrap"} =>
            /\ local[t].popped => local[t].resets = 1
            /\ ~local[t].popped => local[t].resets = 0)
    /\ [][\A t \in Threads : PopStep(t) =>
            /\ local'[t].popped <=> landfill # <<>>
            /\ local'[t].popped => Unwrap(local'[t].val) = Last(landfill)]_vars
    /\ [][nextId' # nextId =>
            \E t \in Threads : pc[t] = "alloc_default" /\ ~local[t].popped
                               /\ Unwrap(local'[t].val).id = nextId]_vars

C4_Witness ==
    \E t \in Threads : pc[t] = "alloc_wrap" /\ local[t].popped /\ local[t].resets = 1

\* C5: a pool with no value constructed yet has an empty free list, and the
\* value of every handle allocate hands out equals a fresh default value, also
\* when it was written through a handle in an earlier borrow.
C5_ExposedIsDefault ==
    /\ [](nextId = 0 => landfill = <<>> /\ handles = EmptyBag)
    /\ [][\A t \in Threads : (pc[t] = "alloc_wrap" /\ pc'[t] = "idle") =>
            /\ BagCardinality(handles') = BagCardinality(handles) + 1
            /\ \A r \in BagToSet(handles') :
                CopiesIn(r, handles') > CopiesIn(r, handles) =>
                    r.owner = t /\ Unwrap(r.val).x = Foo_default(0).x]_vars

C5_Witness ==
    \E r \in BagToSet(handles) :
        /\ IsSome(r.val)
        /\ Unwrap(r.val).m /\ Unwrap(r.val).x = DefaultX

\* C6 as stated: every entry of the free list is in reset state.
C6_ResidentIsReset ==
    \A k \in DOMAIN landfill : landfill[k].x = DefaultX

\* C6 amended: a drop pushes the value in the state the handle left it (no
\* reset on the way in); reset is applied when allocate pops the value, so a
\* popped value is in reset state before the lock is released.
C6_ResetOnPop ==
    /\ [][\A t \in Threads : DropStep(t) =>
            Last(landfill') = Unwrap(local[t].val)]_vars
    /\ [](\A t \in Threads : (pc[t] = "alloc_unlock" /\ local[t].popped) =>
            Unwrap(local[t].val).x = DefaultX)

C6_Witness ==
    /\ \E k \in DOMAIN landfill : landfill[k].x # DefaultX
    /\ \E t \in Threads : pc[t] = "alloc_unlock" /\ local[t].popped
                          /\ Unwrap(local[t].val).m

\* C7 as stated: after each complete allocate/return pair the free-list size
\* equals its size before the sequence, whatever that size was.
C7_PairsRestoreSize ==
    (pc[1] = "idle" /\ HandleCount = 0 /\ returned) => Len(landfill) = len0

\* C7 amended: after each complete allocate/return pair the free-list size
\* equals its size before the sequence when that size was at least one, and is
\* one when the sequence started on an empty free list; it is never negative.
C7_PairsRestoreSizeOrOne ==
    /\ (pc[1] = "idle" /\ HandleCount = 0 /\ returned) =>
            Len(landfill) = IF len0 = 0 THEN 1 ELSE len0
    /\ Len(landfill) >= 0
    /\ Len(landfill) >= len0 - 1

C7_Witness ==
    /\ pc[1] = "idle" /\ HandleCount = 0 /\ returned
    /\ len0 = 0 /\ Len(landfill) = 1 /\ landfill[1].m

\* C8: the free list is LIFO by identity: a pop takes the most recently
\* returned value among those still resident, and constructs nothing while a
\* returned value is resident.
C8_Lifo ==
    [][\A t \in Threads : (PopStep(t) /\ returnOrder # <<>>) =>
            /\ pc'[t] = "alloc_map"
            /\ Unwrap(local'[t].val).id = Last(returnOrder)
            /\ returnOrder' = Front(returnOrder)
            /\ nextId' = nextId]_vars

C8_Witness ==
    /\ nextId = 2 /\ Len(returnOrder) = 1 /\ Len(landfill) = 1
    /\ \E t \in Threads :
        /\ pc[t] = "alloc_map"
        /\ Unwrap(local[t].val).id # returnOrder[1]
    /\ handles = EmptyBag

\* C9: a handle moved through the channel keeps its value out of the free list
\* while it is in the channel or held; send and receive leave the free list
\* unchanged; with one value, the length is 0 until the holder's drop has
\* pushed and 1 from then on.
C9_ChannelDrop ==
    /\ [][channel' # channel => landfill' = landfill]_vars
    /\ [](\A i \in Ids : OwnedCount(i) >= 1 => ResidentCount(i) = 0)
    /\ [](nextId = 1 =>
            Len(landfill) = IF OwnedCount(0) + InFlightCount(0) = 0 THEN 1 ELSE 0)
    /\ [][(Len(landfill) = 0 /\ Len(landfill') = 1) =>
            \E t \in Consumers : DropStep(t)]_vars
    /\ []((nextId = 1 /\ Quiescent /\ HandleCount = 0) => Len(landfill) = 1)

C9_Witness ==
    \E t \in Consumers :
        /\ pc[t] = "drop_unlock"
        /\ nextId = 1 /\ Len(landfill) = 1

\* C10 as stated: no thread tries to acquire the pool's lock while it holds
\* it, and no allocate blocks forever on its own lock, also when reset calls
\* allocate on the same pool.
C10_NoNestedAcquire ==
    \A t \in Threads :
        /\ ~(locked = t /\ pc[t] \in {"alloc_lock", "drop_lock", "nested_lock"})
        /\ pc[t] # "deadlocked"

\* C11 as stated: a reset that fails inside allocate loses the popped value
\* and leaves the other entries as they were, and the pool stays usable: every
\* later allocate gets past the lock to its pop.
C11_UsableAfterResetFailure ==
    [][/\ \A t \in Threads :
            (pc[t] = "alloc_map" /\ mode[t] = "run" /\ mode'[t] = "unwind") =>
                /\ landfill' = landfill
                /\ local'[t].val = None
       /\ \A t \in Threads :
            (pc[t] = "alloc_lock" /\ pc'[t] # "alloc_lock") =>
                pc'[t] = "alloc_pop"]_vars

\* C12: once the mutex is poisoned, no thread holds the lock or is at a pop or
\* a push, the free list never changes again, the poison stays, and every
\* allocate and every drop that reaches the lock fails there.
C12_PoisonSurfaces ==
    /\ [](poisoned =>
            /\ locked = NoThread
            /\ \A t \in Threads :
                pc[t] \notin {"alloc_pop", "alloc_map", "alloc_default",
                              "alloc_unlock", "drop_push", "drop_unlock"})
    /\ [][poisoned => (landfill' = landfill /\ poisoned')]_vars
    /\ [][\A t \in Threads :
            (poisoned /\ pc[t] \in {"alloc_lock", "drop_lock"} /\ pc'[t] # pc[t]) =>
                (pc'[t] = "idle" /\ mode'[t] = "unwind")]_vars

C12_Witness ==
    /\ poisoned /\ aborted
    /\ nextId >= 2

\* C13 as stated: a default construction that fails inside allocate leaves the
\* pool as it was before the call, lock included, and later allocates and
\* drops get past the lock as if the call had not happened.
C13_DefaultFailureLeavesPool ==
    [][/\ \A t \in Threads :
            (pc[t] = "alloc_default" /\ mode[t] = "run" /\ mode'[t] = "unwind") =>
                /\ landfill' = landfill
                /\ nextId' = nextId
                /\ poisoned' = poisoned
       /\ \A t \in Threads :
            (pc[t] = "drop_lock" /\ pc'[t] # "drop_lock") => pc'[t] = "drop_push"]_vars

\* C14: whenever a handle exists, is being built or is being dropped, the
\* Recycler and its free list still exist, and every push of a drop goes to a
\* free list that exists.
C14_StorageOutlivesHandles ==
    /\ [](HandleCount > 0 => alive)
    /\ [][\A t \in Threads : DropStep(t) => (alive /\ alive')]_vars

C14_Witness ==
    /\ ~alive
    /\ returned
    /\ nextId >= 2

\* C15: no two entries of the free list are the same value.
C15_NoDuplicateEntry ==
    \A j, k \in DOMAIN landfill : j # k => landfill[j].id # landfill[k].id

C15_Witness ==
    /\ Len(landfill) >= 2
    /\ \E t \in Threads : pc[t] = "drop_unlock"

\* C16 as stated: reset, and default construction on a miss, run only after
\* allocate has released the lock.
C16_ResetAfterUnlock ==
    [][\A t \in Threads :
        (pc[t] \in {"alloc_map", "alloc_default"} /\ pc'[t] # pc[t]) =>
            locked # t]_vars

\* C17: the pop of allocate removes exactly the last entry and leaves the
\* others in order, or leaves an empty free list empty; the push of a drop
\* appends exactly the dropped value at the end; no other step, as_ref and
\* as_mut included, changes the free list.
C17_FrameEffects ==
    [][/\ \A t \in Threads :
            PopStep(t) =>
                landfill' = IF landfill = <<>> THEN <<>> ELSE Front(landfill)
       /\ \A t \in Threads :
            DropStep(t) =>
                /\ Len(landfill') = Len(landfill) + 1
                /\ Front(landfill') = landfill
                /\ Last(landfill') = Unwrap(local[t].val)
       /\ landfill' # landfill =>
            \E t \in Threads : PopStep(t) \/ DropStep(t)
       /\ handles' # handles => landfill' = landfill]_vars

C17_Witness ==
    \E t \in Threads :
        /\ pc[t] = "alloc_map"
        /\ Len(landfill) = 1
        /\ Unwrap(local[t].val).id # landfill[1].id

\* C18 as stated: with no call in progress, the number of values constructed
\* is the free-list length plus the number of handles, and is the largest
\* number of handles that existed at the same time.
C18_ConstructedIsHighWater ==
    Quiescent =>
        /\ nextId = Len(landfill) + LiveHandles
        /\ nextId = hwm

\* C18 amended: a value is constructed only when the free list is empty at the
\* pop; with no call in progress, the number of values constructed is the
\* free-list length plus the number of handles, and is at least the largest
\* number of handles that existed at the same time; the free-list length
\* decreases only at the pop of an allocate.
C18_ConstructedIsBounded ==
    /\ [][nextId' # nextId => (landfill = <<>> /\ nextId' = nextId + 1)]_vars
    /\ [](Quiescent => (nextId = Len(landfill) + LiveHandles /\ hwm <= nextId))
    /\ [][Len(landfill') < Len(landfill) => \E t \in Threads : PopStep(t)]_vars

C18_Witness ==
    /\ Quiescent
    /\ nextId = 2
    /\ hwm = 1

====
